---- MODULE Spec2Model ----
(***************************************************************************)
(* golem-gpu-info: the backend builder (GpuDetectionBuilder), the          *)
(* detection service (GpuDetection) and the run-length aggregation of      *)
(* detect(), modelled from src/src/lib.rs, with the backend contract of    *)
(* src/src/platform.rs and the error mapping of cuda.rs and amd.rs.        *)
(*                                                                         *)
(* Option<T> is a sequence of length 0 (None) or 1 (Some).                 *)
(***************************************************************************)
EXTENDS Integers, Sequences, FiniteSets, TLC

VARIABLES
    platforms,   \* GpuDetectionBuilder.platforms: registered platform names, in order
    force,       \* GpuDetectionBuilder.force: names whose activation is mandatory
    phase,       \* "builder" until init() is called, then "ready" (Ok) or "failed" (Err)
    initErr,     \* Option: the error init() returned
    inits,       \* history: the Platform::init calls init() made, in order
    detections,  \* GpuDetection.detections: activated handles, in order
    smi,         \* holder of AmdDetector.smi (a Mutex), or "free"
    pc,          \* per caller: position inside detect() / search_by_uuid()
    op,          \* per caller: the method being run
    idx,         \* per caller: position of `detector` in the for loop
    api,         \* per caller: local `api` of detect()
    device,      \* per caller: local `device` of detect()
    last_err,    \* per caller: local `last_err` of search_by_uuid()
    calls,       \* per caller, history: backend calls of the current method and their answers
    result       \* per caller: Option, the value the method returned

vars == <<platforms, force, phase, initErr, inits, detections, smi,
          pc, op, idx, api, device, last_err, calls, result>>

builderVars == <<platforms, force, phase, initErr, inits, detections>>
callerVars == <<pc, op, idx, api, device, last_err, calls, result>>

----------------------------------------------------------------------------
(* Bounds *)

\* longest raw device list one backend call returns
MaxDevices == 3

\* longest raw device list one backend call returns while two callers interleave
MaxConcDevices == 1

\* the threads that share one GpuDetection
Callers == {"t1", "t2"}

MainThread == "t1"

----------------------------------------------------------------------------
(* Data model *)

PlatformNames == {"cuda", "amd"}

\* the registries Default::default() yields under the cuda / amd features,
\* and the same in the other order (tests assign `platforms` directly)
Registries == {<<>>, <<"cuda">>, <<"amd">>, <<"cuda", "amd">>, <<"amd", "cuda">>}

Error(kind, names) == [kind |-> kind, platforms |-> names]

LibloadingError == Error("LibloadingError", {})
GpuAccessError == Error("GpuAccessError", {})
GpuInfoAccessError == Error("GpuInfoAccessError", {})
Unknown == Error("Unknown", {})
NotFound == Error("NotFound", {})
AmdError == Error("AmdError", {})

\* an aggregate error that lists one missing name only
MissingForcedFirst(names) ==
    Error("GpuAccessError", {CHOOSE n \in names : TRUE})

\* GpuAccessError(format!("missing forced platforms: {:?}", self.force))
MissingForced(names) == Error("GpuAccessError", names)

DeviceCuda == [enabled |-> TRUE, cores |-> 10496, caps |-> "8.6"]

DeviceClocks == [graphics_mhz |-> 2100, memory_mhz |-> 9751, sm_mhz |-> 2100,
                 video_mhz |-> <<1950>>]

DeviceMemory == [bandwidth_gib |-> <<936>>, total_gib |-> 24]

\* a raw device as a backend's device_info builds it: quantity 1
DevA == [model |-> "NVIDIA GeForce RTX 3090", cuda |-> <<DeviceCuda>>,
         clocks |-> DeviceClocks, memory |-> DeviceMemory, quantity |-> 1]

\* the same card with another memory size
DevB == [DevA EXCEPT !.memory.total_gib = 12]

\* another model, without the cuda extension
DevC == [DevA EXCEPT !.model = "AMD Radeon RX 7900", !.cuda = <<>>]

RawDevices == {DevA, DevB, DevC}

DeviceLists(devs, n) == UNION {[1..k -> devs] : k \in 0..n}

\* the raw lists a devices() call may return when one thread uses the service
SeqLists == DeviceLists(RawDevices, MaxDevices)

\* the raw lists a devices() call may return while the threads interleave
ConcLists == DeviceLists({DevA, DevB}, MaxConcDevices)

DefaultApi == [cuda |-> <<>>]

Cuda == [version |-> "12.4", driver_version |-> <<"550.54">>]

Gpu(a, d) == [api |-> a, device |-> d]

Ok(v) == [ok |-> TRUE, val |-> <<v>>, err |-> <<>>]
Err(e) == [ok |-> FALSE, val |-> <<>>, err |-> <<e>>]

----------------------------------------------------------------------------
(* GpuDetectionBuilder *)

\* what the host's driver does when a platform tries to open a session
ActivationOutcomes == {"ok", "libloading", "other"}

\* Platform::init of CudaPlatform and AmdPlatform
PlatformInit(name, flagForce, outcome) ==
    IF outcome = "ok" THEN Ok(name)
    ELSE IF name = "cuda"
         THEN IF outcome = "libloading"
              THEN IF flagForce THEN Err(LibloadingError) ELSE Err(NotFound)
              ELSE Err(Unknown)
         ELSE Err(AmdError)

\* a closure that skips every activation error, forced or not
FilterMapSkipAll(r, flagForce) == IF r.ok THEN <<r>> ELSE <<>>

\* the closure given to filter_map: Some(Ok(v)), Some(Err(e)) if forced,
\* None otherwise
FilterMap(r, flagForce) ==
    IF r.ok THEN <<r>> ELSE IF flagForce THEN <<r>> ELSE <<>>

\* the filter_map / collect::<Result<Vec<_>>> pass of init(): lazy, it stops
\* at the first Some(Err(_))
RECURSIVE InitPass(_, _, _, _, _)
InitPass(rest, frc, outcome, dets, log) ==
    IF rest = <<>>
    THEN [force |-> frc, detections |-> dets, err |-> <<>>, inits |-> log]
    ELSE LET platform == Head(rest)
             flagForce == platform \in frc
             frc2 == frc \ {platform}
             r == PlatformInit(platform, flagForce, outcome[platform])
             item == FilterMap(r, flagForce)
             log2 == Append(log, [name |-> platform, force |-> flagForce,
                                  ok |-> r.ok, err |-> r.err])
         IN  IF item = <<>>
             THEN InitPass(Tail(rest), frc2, outcome, dets, log2)
             ELSE IF item[1].ok
                  THEN InitPass(Tail(rest), frc2, outcome,
                                Append(dets, item[1].val[1]), log2)
                  ELSE [force |-> frc2, detections |-> <<>>, err |-> item[1].err,
                        inits |-> log2]

\* GpuDetectionBuilder::force_cuda, for any platform name: self.force.insert(name)
force_platform(name) ==
    /\ phase = "builder"
    /\ name \notin force
    /\ force' = force \cup {name}
    /\ UNCHANGED <<platforms, phase, initErr, inits, detections, smi>>
    /\ UNCHANGED callerVars

\* GpuDetectionBuilder::init
init ==
    /\ phase = "builder"
    /\ \E outcome \in [PlatformNames -> ActivationOutcomes] :
         LET r == InitPass(platforms, force, outcome, <<>>, <<>>)
         IN  /\ force' = r.force
             /\ inits' = r.inits
             /\ IF r.err # <<>>
                THEN /\ phase' = "failed"
                     /\ initErr' = r.err
                     /\ detections' = <<>>
                ELSE IF r.force # {}
                THEN /\ phase' = "failed"
                     /\ initErr' = <<MissingForced(r.force)>>
                     /\ detections' = <<>>
                ELSE /\ phase' = "ready"
                     /\ initErr' = <<>>
                     /\ detections' = r.detections
    /\ UNCHANGED <<platforms, smi>>
    /\ UNCHANGED callerVars

----------------------------------------------------------------------------
(* Aggregation inside detect() *)

\* a comparison that forgets the memory field
SameIdentityNoMemory(next_dev, dev) ==
    /\ next_dev.model = dev.model
    /\ next_dev.cuda = dev.cuda
    /\ next_dev.clocks = dev.clocks

\* the comparison of lib.rs:150-153: quantity is not compared
SameIdentity(next_dev, dev) ==
    /\ next_dev.model = dev.model
    /\ next_dev.cuda = dev.cuda
    /\ next_dev.clocks = dev.clocks
    /\ next_dev.memory = dev.memory

\* `for next_dev in it { ... }` followed by `device.push(dev)`
RECURSIVE AggregateLoop(_, _, _)
AggregateLoop(dev, it, out) ==
    IF it = <<>>
    THEN Append(out, dev)
    ELSE LET next_dev == Head(it)
         IN  IF SameIdentity(next_dev, dev)
             THEN AggregateLoop([dev EXCEPT !.quantity = @ + 1], Tail(it), out)
             ELSE AggregateLoop(next_dev, Tail(it), Append(out, dev))

\* a full grouping: a record joins the first earlier group of its identity,
\* consecutive or not
RECURSIVE GroupLoop(_, _)
GroupLoop(it, groups) ==
    IF it = <<>>
    THEN groups
    ELSE LET next_dev == Head(it)
             hit == {i \in 1..Len(groups) : SameIdentity(next_dev, groups[i])}
         IN  IF hit = {}
             THEN GroupLoop(Tail(it), Append(groups, next_dev))
             ELSE LET i == CHOOSE j \in hit : TRUE
                  IN  GroupLoop(Tail(it),
                                [groups EXCEPT ![i].quantity = @ + 1])

AggregateGrouped(out, devs) == out \o GroupLoop(devs, <<>>)

\* an aggregation whose candidate outlives the backend: the next backend's
\* first records are compared with the last record already gathered
AggregateAcross(out, devs) ==
    IF devs = <<>> THEN out
    ELSE IF out = <<>> THEN AggregateLoop(Head(devs), Tail(devs), out)
    ELSE AggregateLoop(out[Len(out)], devs, SubSeq(out, 1, Len(out) - 1))

\* an aggregation that puts a backend's records in front of the earlier ones
AggregateInFront(out, devs) ==
    IF devs = <<>> THEN out ELSE AggregateLoop(Head(devs), Tail(devs), <<>>) \o out

\* one backend's raw list folded into the accumulator `device`
Aggregate(out, devs) ==
    IF devs = <<>> THEN out ELSE AggregateLoop(Head(devs), Tail(devs), out)

----------------------------------------------------------------------------
(* The Detection trait as the two backends implement it: each operator is   *)
(* the set of results one call can produce.                                 *)

\* Detection::detect_api: CudaDetection fills api.cuda or fails reading the
\* CUDA version; AmdDetector leaves `api` alone and never fails
detect_api(name, a) ==
    IF name = "cuda"
    THEN {Ok([a EXCEPT !.cuda = <<Cuda>>]), Err(GpuInfoAccessError)}
    ELSE {Ok(a)}

\* Detection::devices: the cards the driver enumerates now, or the error of
\* the failed query
devices(name, lists) ==
    {Ok(l) : l \in lists}
        \cup (IF name = "cuda" THEN {Err(Unknown), Err(GpuAccessError)}
              ELSE {Err(AmdError)})

\* Detection::device_by_uuid for the uuid the caller passed: Ok(Some(device)),
\* Ok(None), or the error of the failed query
device_by_uuid(name) ==
    {Ok(<<d>>) : d \in RawDevices} \cup {Ok(<<>>)}
        \cup (IF name = "cuda" THEN {Err(GpuAccessError), Err(GpuInfoAccessError)}
              ELSE {Err(AmdError)})

Call(i, o, r) == [det |-> i, op |-> o, ok |-> r.ok, val |-> r.val, err |-> r.err]

\* the handle the caller's loop is at
InLoop(c) == idx[c] <= Len(detections)
Detector(c) == detections[idx[c]]

\* AmdDetector takes self.smi.lock() in devices and device_by_uuid
NeedsSmi(c) == InLoop(c) /\ Detector(c) = "amd"

HoldsSmi(c) == NeedsSmi(c) => smi = c

ReleaseSmi(c) == IF NeedsSmi(c) THEN "free" ELSE smi

----------------------------------------------------------------------------
(* GpuDetection::detect, one step per backend call *)

detect_begin(c) ==
    /\ phase = "ready"
    /\ pc[c] = "idle"
    /\ pc' = [pc EXCEPT ![c] = "detect_api"]
    /\ op' = [op EXCEPT ![c] = "detect"]
    /\ idx' = [idx EXCEPT ![c] = 1]
    /\ api' = [api EXCEPT ![c] = DefaultApi]
    /\ device' = [device EXCEPT ![c] = <<>>]
    /\ UNCHANGED <<last_err, calls, result, smi>>
    /\ UNCHANGED builderVars

\* a detect_api call that is made again after it failed
detect_api_step_retry(c) ==
    /\ pc[c] = "detect_api"
    /\ InLoop(c)
    /\ Len(calls[c]) < 2 * Len(detections) + 1
    /\ \E r \in detect_api(Detector(c), api[c]) :
         /\ calls' = [calls EXCEPT ![c] = Append(@, Call(idx[c], "detect_api", r))]
         /\ IF r.ok
            THEN /\ api' = [api EXCEPT ![c] = r.val[1]]
                 /\ pc' = [pc EXCEPT ![c] = "devices"]
            ELSE UNCHANGED <<api, pc>>
    /\ UNCHANGED <<op, idx, device, last_err, result, smi>>
    /\ UNCHANGED builderVars

\* detector.detect_api(&mut api)?
detect_api_step(c) ==
    /\ pc[c] = "detect_api"
    /\ InLoop(c)
    /\ \E r \in detect_api(Detector(c), api[c]) :
         /\ calls' = [calls EXCEPT ![c] = Append(@, Call(idx[c], "detect_api", r))]
         /\ IF r.ok
            THEN /\ api' = [api EXCEPT ![c] = r.val[1]]
                 /\ pc' = [pc EXCEPT ![c] = "devices"]
                 /\ UNCHANGED result
            ELSE /\ result' = [result EXCEPT ![c] = <<Err(r.err[1])>>]
                 /\ pc' = [pc EXCEPT ![c] = "done"]
                 /\ UNCHANGED api
    /\ UNCHANGED <<op, idx, device, last_err, smi>>
    /\ UNCHANGED builderVars

\* self.smi.lock() of AmdDetector
smi_lock(c) ==
    /\ pc[c] \in {"devices", "device_by_uuid"}
    /\ NeedsSmi(c)
    /\ smi = "free"
    /\ smi' = c
    /\ UNCHANGED callerVars
    /\ UNCHANGED builderVars

\* a devices failure that returns what was gathered so far as a Gpu
devices_step_partial(c, lists) ==
    /\ pc[c] = "devices"
    /\ HoldsSmi(c)
    /\ \E r \in devices(Detector(c), lists) :
         /\ calls' = [calls EXCEPT ![c] = Append(@, Call(idx[c], "devices", r))]
         /\ IF r.ok
            THEN /\ device' = [device EXCEPT ![c] = Aggregate(@, r.val[1])]
                 /\ idx' = [idx EXCEPT ![c] = @ + 1]
                 /\ pc' = [pc EXCEPT ![c] = "detect_api"]
                 /\ UNCHANGED result
            ELSE /\ result' = [result EXCEPT ![c] = <<Ok(Gpu(api[c], device[c]))>>]
                 /\ pc' = [pc EXCEPT ![c] = "done"]
                 /\ UNCHANGED <<device, idx>>
    /\ smi' = ReleaseSmi(c)
    /\ UNCHANGED <<op, api, last_err>>
    /\ UNCHANGED builderVars

\* a `device` accumulator that is a field of the service, shared by the callers
devices_step_shared(c, lists) ==
    /\ pc[c] = "devices"
    /\ HoldsSmi(c)
    /\ \E r \in devices(Detector(c), lists) :
         /\ calls' = [calls EXCEPT ![c] = Append(@, Call(idx[c], "devices", r))]
         /\ IF r.ok
            THEN /\ device' = [d \in Callers |-> Aggregate(device[c], r.val[1])]
                 /\ idx' = [idx EXCEPT ![c] = @ + 1]
                 /\ pc' = [pc EXCEPT ![c] = "detect_api"]
                 /\ UNCHANGED result
            ELSE /\ result' = [result EXCEPT ![c] = <<Err(r.err[1])>>]
                 /\ pc' = [pc EXCEPT ![c] = "done"]
                 /\ UNCHANGED <<device, idx>>
    /\ smi' = ReleaseSmi(c)
    /\ UNCHANGED <<op, api, last_err>>
    /\ UNCHANGED builderVars

\* detector.devices()? and the aggregation of the list it returned
devices_step(c, lists) ==
    /\ pc[c] = "devices"
    /\ HoldsSmi(c)
    /\ \E r \in devices(Detector(c), lists) :
         /\ calls' = [calls EXCEPT ![c] = Append(@, Call(idx[c], "devices", r))]
         /\ IF r.ok
            THEN /\ device' = [device EXCEPT ![c] = Aggregate(@, r.val[1])]
                 /\ idx' = [idx EXCEPT ![c] = @ + 1]
                 /\ pc' = [pc EXCEPT ![c] = "detect_api"]
                 /\ UNCHANGED result
            ELSE /\ result' = [result EXCEPT ![c] = <<Err(r.err[1])>>]
                 /\ pc' = [pc EXCEPT ![c] = "done"]
                 /\ UNCHANGED <<device, idx>>
    /\ smi' = ReleaseSmi(c)
    /\ UNCHANGED <<op, api, last_err>>
    /\ UNCHANGED builderVars

\* Ok(Gpu { api, device })
detect_end(c) ==
    /\ pc[c] = "detect_api"
    /\ ~InLoop(c)
    /\ result' = [result EXCEPT ![c] = <<Ok(Gpu(api[c], device[c]))>>]
    /\ pc' = [pc EXCEPT ![c] = "done"]
    /\ UNCHANGED <<op, idx, api, device, last_err, calls, smi>>
    /\ UNCHANGED builderVars

----------------------------------------------------------------------------
(* GpuDetection::search_by_uuid, one step per backend call *)

search_begin(c) ==
    /\ phase = "ready"
    /\ pc[c] = "idle"
    /\ pc' = [pc EXCEPT ![c] = "device_by_uuid"]
    /\ op' = [op EXCEPT ![c] = "search_by_uuid"]
    /\ idx' = [idx EXCEPT ![c] = 1]
    /\ last_err' = [last_err EXCEPT ![c] = <<>>]
    /\ UNCHANGED <<api, device, calls, result, smi>>
    /\ UNCHANGED builderVars

\* a lookup loop that returns the first error it meets
search_step_fail_fast(c) ==
    /\ pc[c] = "device_by_uuid"
    /\ InLoop(c)
    /\ HoldsSmi(c)
    /\ \E r \in device_by_uuid(Detector(c)) :
         /\ calls' = [calls EXCEPT ![c] = Append(@, Call(idx[c], "device_by_uuid", r))]
         /\ IF r.ok /\ r.val[1] # <<>>
            THEN /\ result' = [result EXCEPT ![c] = <<Ok(r.val[1][1])>>]
                 /\ pc' = [pc EXCEPT ![c] = "done"]
                 /\ UNCHANGED <<last_err, idx>>
            ELSE IF ~r.ok
            THEN /\ result' = [result EXCEPT ![c] = <<Err(r.err[1])>>]
                 /\ pc' = [pc EXCEPT ![c] = "done"]
                 /\ UNCHANGED <<last_err, idx>>
            ELSE /\ idx' = [idx EXCEPT ![c] = @ + 1]
                 /\ UNCHANGED <<result, pc, last_err>>
    /\ smi' = ReleaseSmi(c)
    /\ UNCHANGED <<op, api, device>>
    /\ UNCHANGED builderVars

\* a lookup loop that keeps the first error instead of the last
search_step_first_err(c) ==
    /\ pc[c] = "device_by_uuid"
    /\ InLoop(c)
    /\ HoldsSmi(c)
    /\ \E r \in device_by_uuid(Detector(c)) :
         /\ calls' = [calls EXCEPT ![c] = Append(@, Call(idx[c], "device_by_uuid", r))]
         /\ IF r.ok /\ r.val[1] # <<>>
            THEN /\ result' = [result EXCEPT ![c] = <<Ok(r.val[1][1])>>]
                 /\ pc' = [pc EXCEPT ![c] = "done"]
                 /\ UNCHANGED <<last_err, idx>>
            ELSE /\ last_err' = [last_err EXCEPT ![c] =
                                     IF r.ok \/ @ # <<>> THEN @ ELSE r.err]
                 /\ idx' = [idx EXCEPT ![c] = @ + 1]
                 /\ UNCHANGED <<result, pc>>
    /\ smi' = ReleaseSmi(c)
    /\ UNCHANGED <<op, api, device>>
    /\ UNCHANGED builderVars

\* match detector.device_by_uuid(uuid) { ... }
search_step(c) ==
    /\ pc[c] = "device_by_uuid"
    /\ InLoop(c)
    /\ HoldsSmi(c)
    /\ \E r \in device_by_uuid(Detector(c)) :
         /\ calls' = [calls EXCEPT ![c] = Append(@, Call(idx[c], "device_by_uuid", r))]
         /\ IF r.ok /\ r.val[1] # <<>>
            THEN /\ result' = [result EXCEPT ![c] = <<Ok(r.val[1][1])>>]
                 /\ pc' = [pc EXCEPT ![c] = "done"]
                 /\ UNCHANGED <<last_err, idx>>
            ELSE /\ last_err' = [last_err EXCEPT ![c] = IF r.ok THEN @ ELSE r.err]
                 /\ idx' = [idx EXCEPT ![c] = @ + 1]
                 /\ UNCHANGED <<result, pc>>
    /\ smi' = ReleaseSmi(c)
    /\ UNCHANGED <<op, api, device>>
    /\ UNCHANGED builderVars

\* Err(last_err.unwrap_or(GpuDetectionError::NotFound))
search_end(c) ==
    /\ pc[c] = "device_by_uuid"
    /\ ~InLoop(c)
    /\ result' = [result EXCEPT ![c] =
                     <<Err(IF last_err[c] = <<>> THEN NotFound ELSE last_err[c][1])>>]
    /\ pc' = [pc EXCEPT ![c] = "done"]
    /\ UNCHANGED <<op, idx, api, device, last_err, calls, smi>>
    /\ UNCHANGED builderVars

\* the method has returned; its locals are dropped
call_return(c) ==
    /\ pc[c] = "done"
    /\ pc' = [pc EXCEPT ![c] = "idle"]
    /\ op' = [op EXCEPT ![c] = "none"]
    /\ idx' = [idx EXCEPT ![c] = 1]
    /\ api' = [api EXCEPT ![c] = DefaultApi]
    /\ device' = [device EXCEPT ![c] = <<>>]
    /\ last_err' = [last_err EXCEPT ![c] = <<>>]
    /\ calls' = [calls EXCEPT ![c] = <<>>]
    /\ result' = [result EXCEPT ![c] = <<>>]
    /\ UNCHANGED smi
    /\ UNCHANGED builderVars

----------------------------------------------------------------------------
(* The two methods run alone: the value each returns for the answers the    *)
(* backends give it, `answers` being those answers in call order.           *)

NoValue == [ok |-> FALSE, val |-> <<>>, err |-> <<>>]

\* GpuDetection::detect
RECURSIVE detect(_, _, _, _)
detect(dets, a, dev, answers) ==
    IF dets = <<>>
    THEN IF answers = <<>> THEN Ok(Gpu(a, dev)) ELSE NoValue
    ELSE IF answers = <<>> THEN NoValue
    ELSE IF ~answers[1].ok
    THEN IF Len(answers) = 1 THEN Err(answers[1].err[1]) ELSE NoValue
    ELSE IF Len(answers) < 2 THEN NoValue
    ELSE IF ~answers[2].ok
    THEN IF Len(answers) = 2 THEN Err(answers[2].err[1]) ELSE NoValue
    ELSE LET a2 == (CHOOSE r \in detect_api(Head(dets), a) : r.ok).val[1]
         IN  detect(Tail(dets), a2, Aggregate(dev, answers[2].val[1]),
                    SubSeq(answers, 3, Len(answers)))

\* GpuDetection::search_by_uuid
RECURSIVE search_by_uuid(_, _, _)
search_by_uuid(dets, last, answers) ==
    IF dets = <<>>
    THEN IF answers = <<>>
         THEN Err(IF last = <<>> THEN NotFound ELSE last[1])
         ELSE NoValue
    ELSE IF answers = <<>> THEN NoValue
    ELSE IF answers[1].ok /\ answers[1].val[1] # <<>>
    THEN IF Len(answers) = 1 THEN Ok(answers[1].val[1][1]) ELSE NoValue
    ELSE search_by_uuid(Tail(dets),
                        IF answers[1].ok THEN last ELSE answers[1].err,
                        Tail(answers))

----------------------------------------------------------------------------
(* Specifications *)

\* GpuDetectionBuilder::default() under any feature set; no call in progress
Init ==
    /\ platforms \in Registries
    /\ force = {}
    /\ phase = "builder"
    /\ initErr = <<>>
    /\ inits = <<>>
    /\ detections = <<>>
    /\ smi = "free"
    /\ pc = [c \in Callers |-> "idle"]
    /\ op = [c \in Callers |-> "none"]
    /\ idx = [c \in Callers |-> 1]
    /\ api = [c \in Callers |-> DefaultApi]
    /\ device = [c \in Callers |-> <<>>]
    /\ last_err = [c \in Callers |-> <<>>]
    /\ calls = [c \in Callers |-> <<>>]
    /\ result = [c \in Callers |-> <<>>]

\* one thread uses the service
Next ==
    \/ \E name \in PlatformNames : force_platform(name)
    \/ init
    \/ detect_begin(MainThread)
    \/ detect_api_step(MainThread)
    \/ smi_lock(MainThread)
    \/ devices_step(MainThread, SeqLists)
    \/ detect_end(MainThread)
    \/ search_begin(MainThread)
    \/ search_step(MainThread)
    \/ search_end(MainThread)
    \/ call_return(MainThread)

Spec == Init /\ [][Next]_vars

\* the threads of Callers share the service
NextConc ==
    \/ \E name \in PlatformNames : force_platform(name)
    \/ init
    \/ \E c \in Callers :
         \/ detect_begin(c)
         \/ detect_api_step(c)
         \/ smi_lock(c)
         \/ devices_step(c, ConcLists)
         \/ detect_end(c)
         \/ search_begin(c)
         \/ search_step(c)
         \/ search_end(c)
         \/ call_return(c)

SpecConc == Init /\ [][NextConc]_vars

----------------------------------------------------------------------------
(* What a finished call shows *)

Done(c, o) == pc[c] = "done" /\ op[c] = o

Returned(c) == result[c][1]

DetectOk(c) == Done(c, "detect") /\ Returned(c).ok

\* the device sequence of the Gpu a successful detect() returned
OutDevices(c) == Returned(c).val[1].device

IsDevicesOk(e) == e.op = "devices" /\ e.ok

\* the raw lists the backends returned to this call, in call order
RawLists(c) ==
    LET got == SelectSeq(calls[c], IsDevicesOk)
    IN  [b \in 1..Len(got) |-> got[b].val[1]]

\* the identity tuple of a device record: every field but quantity
Identity(d) == <<d.model, d.cuda, d.clocks, d.memory>>

\* the positions where a maximal run of equal identity begins
RunStarts(l) ==
    {i \in 1..Len(l) : i = 1 \/ Identity(l[i]) # Identity(l[i - 1])}

\* the last position of the maximal run that begins at i
RunEnd(l, i) ==
    CHOOSE j \in i..Len(l) :
        /\ \A k \in i..j : Identity(l[k]) = Identity(l[i])
        /\ j = Len(l) \/ Identity(l[j + 1]) # Identity(l[i])

NumRuns(l) == Cardinality(RunStarts(l))

\* where the k-th run of l begins
KthStart(l, k) ==
    CHOOSE i \in RunStarts(l) : Cardinality({j \in RunStarts(l) : j < i}) = k - 1

\* the number of runs in the lists before the b-th
RECURSIVE Offset(_, _)
Offset(lists, b) ==
    IF b <= 1 THEN 0 ELSE Offset(lists, b - 1) + NumRuns(lists[b - 1])

RECURSIVE SumQuantity(_)
SumQuantity(out) ==
    IF out = <<>> THEN 0 ELSE Head(out).quantity + SumQuantity(Tail(out))

RECURSIVE TotalLen(_)
TotalLen(lists) ==
    IF lists = <<>> THEN 0 ELSE Len(Head(lists)) + TotalLen(Tail(lists))

----------------------------------------------------------------------------
(* C1: in the device sequence of a successful detect(), every maximal run   *)
(* of n consecutive raw records of equal identity that a backend returned   *)
(* is exactly one record of that identity with quantity n, at the run's     *)
(* position among the runs; the quantities sum to the number of raw         *)
(* records, and empty raw lists give an empty sequence.                     *)
C1_RunsBecomeCountedRecords ==
    \A c \in Callers :
        DetectOk(c) =>
            LET out == OutDevices(c)
                lists == RawLists(c)
            IN  /\ Len(out) = Offset(lists, Len(lists) + 1)
                /\ \A b \in 1..Len(lists) :
                     \A k \in 1..NumRuns(lists[b]) :
                        LET s == KthStart(lists[b], k)
                            r == out[Offset(lists, b) + k]
                        IN  /\ Identity(r) = Identity(lists[b][s])
                            /\ r.quantity = RunEnd(lists[b], s) - s + 1
                /\ SumQuantity(out) = TotalLen(lists)
                /\ (TotalLen(lists) = 0 => out = <<>>)

\* a detect() returned after a backend enumerated two equal cards and a third
\* of another identity
C1_Witness ==
    \E c \in Callers :
        /\ DetectOk(c)
        /\ RawLists(c) = <<(<<DevA, DevA, DevB>>)>>
        /\ OutDevices(c) = <<[DevA EXCEPT !.quantity = 2], DevB>>

(* C2: when a backend returned [A, B, A] with A and B of distinct identity, *)
(* its part of the device sequence of detect() is the three records A, B,   *)
(* A, each with quantity 1: the two A are not merged.                        *)
C2_NonConsecutiveNotMerged ==
    \A c \in Callers :
        DetectOk(c) =>
            LET out == OutDevices(c)
                lists == RawLists(c)
            IN  \A b \in 1..Len(lists) :
                    LET l == lists[b]
                    IN  (/\ Len(l) = 3
                         /\ Identity(l[1]) = Identity(l[3])
                         /\ Identity(l[1]) # Identity(l[2]))
                        => /\ Offset(lists, b) + 3 <= Len(out)
                           /\ SubSeq(out, Offset(lists, b) + 1, Offset(lists, b) + 3) = l
                           /\ Offset(lists, b + 1) = Offset(lists, b) + 3

\* a detect() returned after a backend enumerated A, B, A
C2_Witness ==
    \E c \in Callers :
        /\ DetectOk(c)
        /\ RawLists(c) = <<(<<DevA, DevC, DevA>>)>>
        /\ Len(OutDevices(c)) = 3

----------------------------------------------------------------------------
(* What init() shows once it has returned *)

InitReturned == phase # "builder"

Range(f) == {f[i] : i \in DOMAIN f}

IsOk(e) == e.ok

\* the names of the platforms whose activation succeeded, in registration order
Activated ==
    LET got == SelectSeq(inits, IsOk)
    IN  [i \in 1..Len(got) |-> got[i].name]

\* the names that were force-marked when init() was called
ForcedAtInit == force \cup {e.name : e \in {x \in Range(inits) : x.force}}

\* the force-marked names init() did not activate
MissingAtInit == ForcedAtInit \ Range(Activated)

ForcedFailures == {i \in 1..Len(inits) : inits[i].force /\ ~inits[i].ok}

\* the names the error init() returned lists
NamedByInitErr == IF initErr = <<>> THEN {} ELSE initErr[1].platforms

----------------------------------------------------------------------------
(* What the calls of a method show *)

IsMatch(e) == e.ok /\ e.val[1] # <<>>

SearchErr(c) == Done(c, "search_by_uuid") /\ ~Returned(c).ok

Failures(cs) == {i \in 1..Len(cs) : ~cs[i].ok}

Max(S) == CHOOSE x \in S : \A y \in S : y <= x

(* C5: in detect(), a backend call that fails is the last backend call of   *)
(* the method: detect() is then finished, what it returned is that call's   *)
(* error and carries no Gpu value, and no backend after the failing one was *)
(* queried.                                                                 *)
C5_DetectShortCircuits ==
    \A c \in Callers :
        op[c] = "detect" =>
            \A i \in Failures(calls[c]) :
                /\ i = Len(calls[c])
                /\ pc[c] = "done"
                /\ result[c] = <<Err(calls[c][i].err[1])>>
                /\ Returned(c).val = <<>>
                /\ \A j \in 1..Len(calls[c]) : calls[c][j].det <= calls[c][i].det

\* detect() failed at the first of two backends after its devices call failed
C5_Witness ==
    \E c \in Callers :
        /\ Done(c, "detect")
        /\ Len(detections) = 2
        /\ Len(calls[c]) = 2
        /\ calls[c][2].op = "devices" /\ ~calls[c][2].ok
        /\ ~Returned(c).ok

(* C6: search_by_uuid() queries the handles in order, one lookup each; a    *)
(* lookup that matches is the last one made and its device is what the      *)
(* method returns, whatever errors the earlier lookups returned; the method *)
(* returns a device only in that way, and a lookup that fails does not end  *)
(* the method while a handle is left to query.                              *)
C6_FirstMatchWins ==
    \A c \in Callers :
        op[c] = "search_by_uuid" =>
            LET cs == calls[c]
            IN  /\ \A i \in 1..Len(cs) :
                     /\ cs[i].det = i
                     /\ cs[i].op = "device_by_uuid"
                     /\ i <= Len(detections)
                     /\ IsMatch(cs[i]) =>
                            /\ i = Len(cs)
                            /\ pc[c] = "done"
                            /\ result[c] = <<Ok(cs[i].val[1][1])>>
                /\ (pc[c] = "done" /\ Returned(c).ok) =>
                        /\ cs # <<>>
                        /\ IsMatch(cs[Len(cs)])
                /\ (pc[c] = "done" /\ ~Returned(c).ok) => Len(cs) = Len(detections)

\* the first backend's lookup failed, the second matched, the device is returned
C6_Witness ==
    \E c \in Callers :
        /\ Done(c, "search_by_uuid")
        /\ Len(calls[c]) = 2
        /\ ~calls[c][1].ok
        /\ IsMatch(calls[c][2])
        /\ result[c] = <<Ok(DevB)>>

(* C7: when search_by_uuid() returns an error, every handle was queried     *)
(* once, in order, none matched, and the error is the one of the last       *)
(* lookup that failed, or NotFound when no lookup failed.                   *)
C7_LastErrorOrNotFound ==
    \A c \in Callers :
        SearchErr(c) =>
            LET cs == calls[c]
            IN  /\ Len(cs) = Len(detections)
                /\ \A i \in 1..Len(cs) : cs[i].det = i /\ ~IsMatch(cs[i])
                /\ Returned(c).val = <<>>
                /\ Returned(c).err =
                        IF Failures(cs) = {} THEN <<NotFound>>
                        ELSE cs[Max(Failures(cs))].err

\* two lookups failed with different errors and the second error is returned
C7_Witness ==
    \E c \in Callers :
        /\ SearchErr(c)
        /\ Failures(calls[c]) = {1, 2}
        /\ calls[c][1].err # calls[c][2].err
        /\ Returned(c).err = calls[c][2].err

\* a device sequence with every record written quantity times, as raw records
RECURSIVE Expand(_)
Expand(out) ==
    IF out = <<>>
    THEN <<>>
    ELSE [i \in 1..Head(out).quantity |-> [Head(out) EXCEPT !.quantity = 1]]
             \o Expand(Tail(out))

RECURSIVE Concat(_)
Concat(lists) == IF lists = <<>> THEN <<>> ELSE Head(lists) \o Concat(Tail(lists))

(* C8: the device sequence of a successful detect(), with each record       *)
(* written out quantity times, is the raw lists of the backends one after   *)
(* the other in handle order, each in its enumeration order: nothing is     *)
(* sorted or reordered.                                                     *)
C8_InsertionOrder ==
    \A c \in Callers :
        DetectOk(c) =>
            /\ Expand(OutDevices(c)) = Concat(RawLists(c))
            /\ Len(RawLists(c)) = Len(detections)

\* two backends, each enumerating its cards in an order no sort would give
C8_Witness ==
    \E c \in Callers :
        /\ DetectOk(c)
        /\ RawLists(c) = <<(<<DevC, DevA>>), (<<DevB, DevA, DevA>>)>>
        /\ OutDevices(c) = <<DevC, DevA, DevB, [DevA EXCEPT !.quantity = 2]>>

\* what the method of a finished call returns when run alone on the answers it got
RunAlone(c) ==
    IF op[c] = "detect"
    THEN detect(detections, DefaultApi, <<>>, calls[c])
    ELSE search_by_uuid(detections, <<>>, calls[c])

(* C9: while the threads interleave their calls, the service's handles stay *)
(* the ones init() activated, and every finished call returns what the      *)
(* method returns when run alone on the answers the backends gave it.       *)
C9_ConcurrentCallsAreIndependent ==
    /\ phase = "ready" => detections = Activated
    /\ \A c \in Callers :
          pc[c] = "done" => result[c] = <<RunAlone(c)>>

\* one thread finished a detect() while the other is inside AmdDetector::devices
\* of its own detect(), holding the mutex, with a different list gathered
C9_Witness ==
    /\ DetectOk("t2")
    /\ Len(detections) = 2
    /\ OutDevices("t2") = <<DevB, DevA>>
    /\ pc["t1"] = "devices"
    /\ idx["t1"] = 2
    /\ smi = "t1"
    /\ device["t1"] = <<DevA>>

(* C10: the backend calls of one detect() are, in order, detect_api then    *)
(* devices on the first handle, then on the second, and so on: each call    *)
(* is made at most once per handle, and a call is made only if the call     *)
(* before it succeeded, so a failed call is not retried and devices is not  *)
(* called after a failed detect_api.                                        *)
C10_CallOrder ==
    \A c \in Callers :
        op[c] = "detect" =>
            \A j \in 1..Len(calls[c]) :
                /\ calls[c][j].det = (j + 1) \div 2
                /\ calls[c][j].det <= Len(detections)
                /\ calls[c][j].op = (IF j % 2 = 1 THEN "detect_api" ELSE "devices")
                /\ j > 1 => calls[c][j - 1].ok

\* the second handle's detect_api failed after the first handle was fully queried
C10_Witness ==
    \E c \in Callers :
        /\ Done(c, "detect")
        /\ Len(calls[c]) = 3
        /\ calls[c][3].op = "detect_api" /\ ~calls[c][3].ok
        /\ ~Returned(c).ok

\* the boundaries between two backends where the last raw record of one and
\* the first raw record of the next have equal identity
EqualAcross(lists) ==
    {b \in 1..(Len(lists) - 1) :
        /\ lists[b] # <<>>
        /\ lists[b + 1] # <<>>
        /\ Identity(lists[b][Len(lists[b])]) = Identity(lists[b + 1][1])}

(* C11: in the device sequence of a successful detect(), the records of     *)
(* each backend are a part of their own whose quantities sum to the number  *)
(* of raw records that backend returned; where the last raw record of one   *)
(* backend and the first of the next have equal identity, the sequence      *)
(* holds two neighbouring records of that identity, one ending the first    *)
(* backend's part and one beginning the next backend's part.                *)
C11_NoMergeAcrossBackends ==
    \A c \in Callers :
        DetectOk(c) =>
            LET out == OutDevices(c)
                lists == RawLists(c)
            IN  /\ Offset(lists, Len(lists) + 1) <= Len(out)
                /\ \A b \in 1..Len(lists) :
                     SumQuantity(SubSeq(out, Offset(lists, b) + 1,
                                        Offset(lists, b + 1))) = Len(lists[b])
                /\ \A b \in EqualAcross(lists) :
                     LET last == out[Offset(lists, b + 1)]
                         first == out[Offset(lists, b + 1) + 1]
                     IN  /\ Identity(last) = Identity(first)
                         /\ last.quantity <= Len(lists[b])
                         /\ first.quantity <= Len(lists[b + 1])

\* the first backend ended with the card the second backend began with
C11_Witness ==
    \E c \in Callers :
        /\ DetectOk(c)
        /\ RawLists(c) = <<(<<DevB, DevA>>), (<<DevA, DevA>>)>>
        /\ OutDevices(c) = <<DevB, DevA, [DevA EXCEPT !.quantity = 2]>>

====
